---- MODULE Spec2Model ----
(***************************************************************************)
(* Admission-control layer of the Git-Archiver Web worker                  *)
(* (worker/src/index.js): the KV-backed sliding-window rate limiter        *)
(* checkRateLimit, the retrying client fetchWithRetry, the cache-aside     *)
(* helper cachedFetch and the request handlers that sequence them.         *)
(*                                                                         *)
(* Time is Date.now() in milliseconds.  The RATE_LIMIT namespace is a      *)
(* linearizable key/value store with per-key expiry; every await of the    *)
(* code is one step of the model.                                          *)
(***************************************************************************)
EXTENDS Integers, Sequences, FiniteSets, TLC

VARIABLES
    clock,          \* Date.now(), ms
    env,            \* bindings: [RATE_LIMIT |-> BOOLEAN]
    kv,             \* env.RATE_LIMIT: set of [key, val, exp]
    ev,             \* per process: the activation of checkRateLimit
    calls,          \* number of checkRateLimit activations started
    nextRid,        \* next unused request id
    admitted,       \* history: admitted evaluations per (ip, endpoint) and slot
    firstDecision,  \* history: the decision first returned for (ip, endpoint, requestId)
    denial,         \* history: latest denial per (ip, endpoint)
    target,         \* the (ip, endpoint) a sequential run exercises
    fr,             \* the activation of fetchWithRetry
    cache,          \* caches.default: set of stored entries
    pendingPuts,    \* cache.put promises not yet settled
    cf,             \* the activation of cachedFetch
    cfCalls,        \* number of cachedFetch activations started
    hd              \* the activation of fetch() and of the handler it routes to

rateVars == <<clock, env, kv, ev, calls, nextRid, admitted, firstDecision, denial, target>>
retryVars == <<fr>>
cacheVars == <<cache, pendingPuts, cf, cfCalls>>

workerVars == <<hd>>

vars == <<rateVars, retryVars, cacheVars, workerVars>>

-----------------------------------------------------------------------------
(* Bounds of the model.  The windows, limits and TTLs of the source        *)
(* (3600 s / 60 s windows, limits 3..60, TTLs 60 s and +10 s) are scaled   *)
(* down, keeping their order relations.                                    *)

MaxClockMs == 3000
TickMs == 500
MaxCalls == 4
LimitScale == 1
WindowScale == 2
IdemTtlSeconds == 2
TtlBufferSeconds == 1

Procs == {"p1", "p2"}
SeqProc == "p1"
IPs == {"ip1", "ip2"}
\* what a client may write into X-Forwarded-For
ForwardedFor == {"", "9.9.9.9"}
\* every value a caller id can take
CallerIds == IPs \cup (ForwardedFor \ {""}) \cup {"unknown"}
SeqIP == "ip1"
NoRid == 0

-----------------------------------------------------------------------------
(* Number <-> text conversions                                             *)

DigitChars == <<"0", "1", "2", "3", "4", "5", "6", "7", "8", "9">>

RECURSIVE NatToString(_)
NatToString(n) ==
    IF n < 10 THEN <<DigitChars[n + 1]>>
    ELSE NatToString(n \div 10) \o <<DigitChars[(n % 10) + 1]>>

\* Number.prototype.toString() of an integer
NumToString(n) == IF n < 0 THEN <<"-">> \o NatToString(0 - n) ELSE NatToString(n)

IsDigit(c) == \E d \in 1..10 : DigitChars[d] = c
DigitVal(c) == (CHOOSE d \in 1..10 : DigitChars[d] = c) - 1

RECURSIVE DigitsToNat(_)
DigitsToNat(s) ==
    IF s = << >> THEN 0
    ELSE DigitsToNat(SubSeq(s, 1, Len(s) - 1)) * 10 + DigitVal(s[Len(s)])

RECURSIVE DigitPrefix(_)
DigitPrefix(s) ==
    IF s = << >> \/ ~IsDigit(Head(s)) THEN << >>
    ELSE <<Head(s)>> \o DigitPrefix(Tail(s))

RECURSIVE SkipSpaces(_)
SkipSpaces(s) == IF s # << >> /\ Head(s) = " " THEN SkipSpaces(Tail(s)) ELSE s

\* parseInt(string): leading blanks, an optional sign, the longest digit
\* prefix; NaN when there is no digit.
parseInt(s) ==
    LET t    == SkipSpaces(s)
        neg  == t # << >> /\ Head(t) = "-"
        u    == IF t # << >> /\ Head(t) \in {"-", "+"} THEN Tail(t) ELSE t
        digs == DigitPrefix(u)
    IN  IF digs = << >> THEN [nan |-> TRUE, n |-> 0]
        ELSE [nan |-> FALSE,
              n   |-> IF neg THEN 0 - DigitsToNat(digs) ELSE DigitsToNat(digs)]

-----------------------------------------------------------------------------
(* JSON text of a rate decision: a sequence of tokens                      *)
(*   { "allowed" : true , "limit" : 1 0 , ... }                            *)

ResultFields(r) ==
    SelectSeq(<<"allowed", "limit", "remaining", "resetAt", "retryAfter">>,
              LAMBDA f : f \in DOMAIN r)

\* `allowed` is the boolean member, the others are integers
JSONValue(f, v) ==
    IF f = "allowed" THEN (IF v THEN <<"true">> ELSE <<"false">>) ELSE NumToString(v)

RECURSIVE JSONMembers(_, _)
JSONMembers(r, fs) ==
    IF fs = << >> THEN << >>
    ELSE <<Head(fs), ":">> \o JSONValue(Head(fs), r[Head(fs)])
         \o (IF Len(fs) > 1 THEN <<",">> ELSE << >>)
         \o JSONMembers(r, Tail(fs))

JSONstringify(r) == <<"{">> \o JSONMembers(r, ResultFields(r)) \o <<"}">>

IndexOf(s, c) ==
    IF \E k \in 1..Len(s) : s[k] = c
    THEN CHOOSE k \in 1..Len(s) : s[k] = c /\ \A j \in 1..(k - 1) : s[j] # c
    ELSE 0

RECURSIVE SplitOn(_, _)
SplitOn(s, c) ==
    LET k == IndexOf(s, c)
    IN  IF k = 0 THEN <<s>>
        ELSE <<SubSeq(s, 1, k - 1)>> \o SplitOn(SubSeq(s, k + 1, Len(s)), c)

JSONLiteral(t) ==
    IF t = <<"true">> THEN TRUE
    ELSE IF t = <<"false">> THEN FALSE
    ELSE parseInt(t).n

JSONparse(text) ==
    LET members == SplitOn(SubSeq(text, 2, Len(text) - 1), ",")
        names   == {members[k][1] : k \in 1..Len(members)}
        member(f) == CHOOSE k \in 1..Len(members) : members[k][1] = f
    IN  [f \in names |->
            JSONLiteral(SubSeq(members[member(f)], 3, Len(members[member(f)])))]

-----------------------------------------------------------------------------
(* Configuration                                                           *)

\* RATE_LIMITS: submit 10/3600, bulkSubmit 3/3600, index 60/60,
\* status 30/60, readme 30/60, scaled.
RATE_LIMITS ==
    [submit     |-> [limit |-> LimitScale + 2, windowSeconds |-> WindowScale + 1],
     bulkSubmit |-> [limit |-> LimitScale,     windowSeconds |-> WindowScale + 1],
     index      |-> [limit |-> LimitScale + 1, windowSeconds |-> WindowScale],
     status     |-> [limit |-> LimitScale,     windowSeconds |-> WindowScale],
     readme     |-> [limit |-> LimitScale,     windowSeconds |-> WindowScale]]

Endpoints == DOMAIN RATE_LIMITS

FailRetryAfter == 60

-----------------------------------------------------------------------------
(* env.RATE_LIMIT                                                          *)

Null == << >>
Truthy(v) == v # Null

SlotKey_SharedByCallers(endpoint, ip, slot) ==
    [kind |-> "slot", ep |-> endpoint, ip |-> "ip1", n |-> slot]
\* `rate:${endpoint}:${ip}:${currentSlot - i}`
SlotKey(endpoint, ip, slot) ==
    [kind |-> "slot", ep |-> endpoint, ip |-> ip, n |-> slot]
ReqIdKey_InSlotSpace(endpoint, ip, requestId) ==
    [kind |-> "slot", ep |-> endpoint, ip |-> ip, n |-> requestId]
\* `rate:${endpoint}:${ip}:reqid:${requestId}`
ReqIdKey(endpoint, ip, requestId) ==
    [kind |-> "reqid", ep |-> endpoint, ip |-> ip, n |-> requestId]

KvGet(key) ==
    IF \E e \in kv : e.key = key /\ clock < e.exp
    THEN (CHOOSE e \in kv : e.key = key /\ clock < e.exp).val
    ELSE Null

KvPut(key, val, expirationTtl) ==
    {e \in kv : e.key # key}
        \cup {[key |-> key, val |-> val, exp |-> clock + expirationTtl * 1000]}

-----------------------------------------------------------------------------
(* checkRateLimit(ip, endpoint, env, requestId)                            *)

EvIdle ==
    [pc |-> "idle", ip |-> "", ep |-> "", rid |-> NoRid, fresh |-> FALSE,
     now |-> 0, i |-> 0, requests |-> << >>, result |-> [allowed |-> FALSE],
     dupHit |-> FALSE, gets |-> 0, puts |-> 0, storeFailed |-> FALSE, error |-> ""]

CurrentSlot(now) == now \div 1000
CeilDiv(a, b) == (a + b - 1) \div b

\* the slot read by iteration i of the window loop
WindowSlot(currentSlot, i) == currentSlot - i
ScanDone_OneMore(i, windowSeconds) == i > windowSeconds
\* the loop condition i < windowSeconds, negated
ScanDone(i, windowSeconds) == i >= windowSeconds

ResetAt(now, windowSeconds) == (CurrentSlot(now) + windowSeconds) * 1000

LimitExceeded_OffByOne(currentCount, limit) == currentCount > limit
\* if (currentCount >= limit)
LimitExceeded(currentCount, limit) == currentCount >= limit

DeniedResult(limit, now, windowSeconds) ==
    [allowed    |-> FALSE,
     limit      |-> limit,
     remaining  |-> 0,
     resetAt    |-> ResetAt(now, windowSeconds),
     retryAfter |-> CeilDiv(ResetAt(now, windowSeconds) - now, 1000)]

AllowedResult(limit, currentCount, now, windowSeconds) ==
    [allowed   |-> TRUE,
     limit     |-> limit,
     remaining |-> limit - currentCount - 1,
     resetAt   |-> ResetAt(now, windowSeconds)]

UnboundResult_Denies(limit, now, windowSeconds) ==
    [allowed |-> FALSE, limit |-> limit, remaining |-> 0,
     resetAt |-> now + windowSeconds * 1000, retryAfter |-> windowSeconds]
\* if (!env.RATE_LIMIT) return { allowed: true, limit, remaining: limit, ... }
UnboundResult(limit, now, windowSeconds) ==
    [allowed |-> TRUE, limit |-> limit, remaining |-> limit,
     resetAt |-> now + windowSeconds * 1000]

UnknownEndpointResult ==
    [allowed |-> TRUE, limit |-> 0, remaining |-> 0, resetAt |-> 0]

FailClosedResult(limit, now, windowSeconds) ==
    [allowed |-> FALSE, limit |-> limit, remaining |-> 0,
     resetAt |-> now + windowSeconds * 1000, retryAfter |-> FailRetryAfter,
     error |-> "Rate limit service temporarily unavailable - please retry"]

\* `logger` is no parameter, local or module binding of checkRateLimit
LoggerInScope == FALSE

\* the synchronous prefix of checkRateLimit, up to its first await
Enter(ip, endpoint, requestId, fresh) ==
    LET e0 == [EvIdle EXCEPT !.ip = ip, !.ep = endpoint, !.rid = requestId,
                             !.fresh = fresh, !.now = clock]
    IN  IF endpoint \notin DOMAIN RATE_LIMITS
        THEN [e0 EXCEPT !.pc = "ret", !.result = UnknownEndpointResult]
        ELSE IF ~env.RATE_LIMIT
        THEN [e0 EXCEPT !.pc = "ret",
                        !.result = UnboundResult(RATE_LIMITS[endpoint].limit, clock,
                                                 RATE_LIMITS[endpoint].windowSeconds)]
        ELSE IF requestId # NoRid THEN [e0 EXCEPT !.pc = "dup"]
        ELSE [e0 EXCEPT !.pc = "scan"]

DuplicateLookup_Ignored(e) == [e EXCEPT !.pc = "scan"]
\* const duplicate = await env.RATE_LIMIT.get(reqIdKey); if (duplicate) return JSON.parse(duplicate)
DuplicateLookup(e) ==
    LET duplicate == KvGet(ReqIdKey(e.ep, e.ip, e.rid))
    IN  IF Truthy(duplicate)
        THEN [e EXCEPT !.pc = "ret", !.result = JSONparse(duplicate), !.dupHit = TRUE]
        ELSE [e EXCEPT !.pc = "scan"]

\* after the window loop: count, compare, and run to the next await
AfterScan(e) ==
    LET cfg == RATE_LIMITS[e.ep]
    IN  IF LimitExceeded(Len(e.requests), cfg.limit)
        THEN [e EXCEPT !.result = DeniedResult(cfg.limit, e.now, cfg.windowSeconds),
                       !.pc = IF e.rid # NoRid THEN "putReq" ELSE "ret"]
        ELSE [e EXCEPT !.pc = "putSlot"]

\* one iteration of the window loop: await env.RATE_LIMIT.get(slotKey)
SlotRead(e) ==
    LET cfg      == RATE_LIMITS[e.ep]
        slotData == KvGet(SlotKey(e.ep, e.ip, WindowSlot(CurrentSlot(e.now), e.i)))
        e1       == [e EXCEPT !.i = e.i + 1, !.gets = e.gets + 1,
                              !.requests = IF Truthy(slotData)
                                           THEN Append(e.requests, parseInt(slotData).n)
                                           ELSE e.requests]
    IN  IF ScanDone(e1.i, cfg.windowSeconds) THEN AfterScan(e1) ELSE e1

CRL_DupGet(p) ==
    /\ ev[p].pc = "dup"
    /\ ev' = [ev EXCEPT ![p] = DuplicateLookup(ev[p])]
    /\ UNCHANGED <<clock, env, kv, calls, nextRid, admitted, firstDecision, denial,
                   target, retryVars, cacheVars, workerVars>>

CRL_SlotGet(p) ==
    /\ ev[p].pc = "scan"
    /\ ev' = [ev EXCEPT ![p] = SlotRead(ev[p])]
    /\ UNCHANGED <<clock, env, kv, calls, nextRid, admitted, firstDecision, denial,
                   target, retryVars, cacheVars, workerVars>>

\* await env.RATE_LIMIT.put(key, currentSlot.toString(), {expirationTtl: windowSeconds + 10})
CRL_PutSlot(p) ==
    LET e   == ev[p]
        cfg == RATE_LIMITS[e.ep]
    IN  /\ e.pc = "putSlot"
        /\ kv' = KvPut(SlotKey(e.ep, e.ip, CurrentSlot(e.now)),
                       NumToString(CurrentSlot(e.now)),
                       cfg.windowSeconds + TtlBufferSeconds)
        /\ ev' = [ev EXCEPT ![p] =
                    [e EXCEPT !.puts = e.puts + 1,
                              !.result = AllowedResult(cfg.limit, Len(e.requests),
                                                       e.now, cfg.windowSeconds),
                              !.pc = IF e.rid # NoRid THEN "putReq" ELSE "ret"]]
        /\ UNCHANGED <<clock, env, calls, nextRid, admitted, firstDecision, denial,
                       target, retryVars, cacheVars, workerVars>>

\* await env.RATE_LIMIT.put(reqIdKey, JSON.stringify(result), {expirationTtl: 60})
CRL_PutReq(p) ==
    LET e == ev[p]
    IN  /\ e.pc = "putReq"
        /\ kv' = KvPut(ReqIdKey(e.ep, e.ip, e.rid), JSONstringify(e.result),
                       IdemTtlSeconds)
        /\ ev' = [ev EXCEPT ![p] = [e EXCEPT !.pc = "ret"]]
        /\ UNCHANGED <<clock, env, calls, nextRid, admitted, firstDecision, denial,
                       target, retryVars, cacheVars, workerVars>>

\* the catch block: logger.warn(...) and the fail-closed decision
CatchBlock(e) ==
    LET cfg == RATE_LIMITS[e.ep]
    IN  IF LoggerInScope
        THEN [e EXCEPT !.pc = "ret", !.storeFailed = TRUE,
                       !.result = FailClosedResult(cfg.limit, e.now, cfg.windowSeconds)]
        ELSE [e EXCEPT !.pc = "threw", !.storeFailed = TRUE, !.error = "ReferenceError"]

\* a get or put of env.RATE_LIMIT rejects while checkRateLimit awaits it
CRL_StoreThrows(p) ==
    /\ ev[p].pc \in {"dup", "scan", "putSlot", "putReq"}
    /\ ev' = [ev EXCEPT ![p] = CatchBlock(ev[p])]
    /\ UNCHANGED <<clock, env, kv, calls, nextRid, admitted, firstDecision, denial,
                   target, retryVars, cacheVars, workerVars>>

-----------------------------------------------------------------------------
(* Callers of checkRateLimit and the clock                                 *)

MaxSlot == MaxClockMs \div 1000

\* a caller invokes checkRateLimit with a new or a repeated request id
\* (every call site passes logger.requestId)
Call(p, ip, endpoint, requestId) ==
    /\ ev[p].pc = "idle"
    /\ calls < MaxCalls
    /\ requestId \in 1..nextRid
    /\ ev' = [ev EXCEPT ![p] = Enter(ip, endpoint, requestId, requestId = nextRid)]
    /\ calls' = calls + 1
    /\ nextRid' = IF requestId = nextRid THEN nextRid + 1 ELSE nextRid
    /\ UNCHANGED <<clock, env, kv, admitted, firstDecision, denial,
                   target, retryVars, cacheVars, workerVars>>

\* the caller takes the decision (or the exception); the history is updated
Collect(p) ==
    LET e    == ev[p]
        who  == <<e.ip, e.ep>>
        real == e.pc = "ret" /\ ~e.dupHit /\ env.RATE_LIMIT
        slot == CurrentSlot(e.now)
    IN  /\ e.pc \in {"ret", "threw"}
        /\ ev' = [ev EXCEPT ![p] = EvIdle]
        /\ admitted' =
              IF real /\ e.result.allowed
              THEN [admitted EXCEPT ![who][slot] = @ + 1]
              ELSE admitted
        /\ firstDecision' =
              IF real /\ e.rid # NoRid
              THEN {f \in firstDecision : f.id # <<e.ip, e.ep, e.rid>>}
                     \cup {[id |-> <<e.ip, e.ep, e.rid>>, at |-> e.now, d |-> e.result]}
              ELSE firstDecision
        /\ denial' =
              IF ~real THEN denial
              ELSE IF ~e.result.allowed
              THEN IF denial[who].set /\ ~denial[who].admSince
                                     /\ e.now < denial[who].resetAt
                   THEN denial
                   ELSE [denial EXCEPT ![who] =
                            [set |-> TRUE, resetAt |-> e.result.resetAt,
                             admSince |-> FALSE]]
              ELSE IF denial[who].set /\ e.now >= denial[who].resetAt
              THEN [denial EXCEPT ![who] =
                        [set |-> FALSE, resetAt |-> 0, admSince |-> FALSE]]
              ELSE IF denial[who].set
              THEN [denial EXCEPT ![who].admSince = TRUE]
              ELSE denial
        /\ UNCHANGED <<clock, env, kv, calls, nextRid,
                       target, retryVars, cacheVars, workerVars>>

AllIdle == \A p \in Procs : ev[p].pc = "idle"

\* time passes between evaluations; expired keys leave the store
Tick ==
    /\ AllIdle
    /\ clock + TickMs <= MaxClockMs
    /\ clock' = clock + TickMs
    /\ kv' = {e \in kv : clock' < e.exp}
    /\ firstDecision' = {f \in firstDecision : clock' < f.at + IdemTtlSeconds * 1000}
    /\ cache' = {c \in cache : clock' < c.exp}
    /\ UNCHANGED <<env, ev, calls, nextRid, admitted, denial,
                   target, retryVars, pendingPuts, cf, cfCalls, workerVars>>

InitRate ==
    /\ clock = 0
    /\ kv = {}
    /\ ev = [p \in Procs |-> EvIdle]
    /\ calls = 0
    /\ nextRid = 1
    /\ admitted = [w \in CallerIds \X Endpoints |-> [s \in 0..MaxSlot |-> 0]]
    /\ firstDecision = {}
    /\ denial = [w \in CallerIds \X Endpoints |->
                    [set |-> FALSE, resetAt |-> 0, admSince |-> FALSE]]

CheckRateLimitStep(p) ==
    \/ CRL_DupGet(p)
    \/ CRL_SlotGet(p)
    \/ CRL_PutSlot(p)
    \/ CRL_PutReq(p)

-----------------------------------------------------------------------------
(* fetchWithRetry(url, options, maxAttempts)                               *)

MaxAttemptsArg == 4
InitialDelayMs == 1000
MaxDelayMs == 30000

\* a JavaScript number that may be NaN
Num(n) == [nan |-> FALSE, n |-> n]
NaN == [nan |-> TRUE, n |-> 0]
Times(d, k) == IF d.nan THEN NaN ELSE Num(d.n * k)
\* Math.min(d, cap): NaN when d is NaN
MathMin(d, cap) == IF d.nan THEN NaN ELSE Num(IF d.n < cap THEN d.n ELSE cap)
\* setTimeout(resolve, d) waits 0 ms for NaN or a negative d
TimeoutMs(d) == IF d.nan \/ d.n < 0 THEN 0 ELSE d.n

\* Retry-After header values a 429 may carry; Null: no header
RetryAfterValues ==
    {Null, <<"0">>, <<"1">>, <<"6", "0">>, <<"W", "e", "d">>}

\* what one invocation of fetch(url, options) can produce
FetchOutcomes ==
    {[kind |-> "response", status |-> st, retryAfter |-> Null] :
        st \in {200, 404, 500, 503}}
    \cup {[kind |-> "response", status |-> 429, retryAfter |-> h] :
        h \in RetryAfterValues}
    \cup {[kind |-> "throws", status |-> 0, retryAfter |-> Null]}

FrIdle ==
    [pc |-> "idle", maxAttempts |-> 0, attempt |-> 0, delay |-> Num(0),
     lastError |-> [name |-> "none", delay |-> Num(0), status |-> 0],
     response |-> 0, invocations |-> 0, slept |-> << >>, outcomes |-> << >>]

\* delay = retryAfter ? parseInt(retryAfter) * 1000 : delay * 2
RateLimitedDelay(retryAfter, delay) ==
    IF Truthy(retryAfter)
    THEN (IF parseInt(retryAfter).nan THEN NaN ELSE Num(parseInt(retryAfter).n * 1000))
    ELSE Times(delay, 2)

NextDelay_Uncapped(delay) == Times(delay, 2)
\* delay = Math.min(delay * 2, 30000), after the sleep
NextDelay(delay) == MathMin(Times(delay, 2), MaxDelayMs)

SleepsBeforeRetry_AlsoLast(attempt, maxAttempts) == attempt <= maxAttempts
\* if (attempt < maxAttempts) await sleep
SleepsBeforeRetry(attempt, maxAttempts) == attempt < maxAttempts

AttemptError_Retry4xx(o, delay) ==
    IF o.kind = "throws"
    THEN [name |-> "FetchError", delay |-> Num(0), status |-> 0]
    ELSE IF o.status = 429
    THEN [name |-> "RateLimited", delay |-> RateLimitedDelay(o.retryAfter, delay),
          status |-> 429]
    ELSE IF o.status >= 400
    THEN [name |-> "ServerError", delay |-> Num(0), status |-> o.status]
    ELSE [name |-> "none", delay |-> Num(0), status |-> o.status]
\* the error the try block throws for an outcome; "none" when it returns
AttemptError(o, delay) ==
    IF o.kind = "throws"
    THEN [name |-> "FetchError", delay |-> Num(0), status |-> 0]
    ELSE IF o.status = 429
    THEN [name |-> "RateLimited", delay |-> RateLimitedDelay(o.retryAfter, delay),
          status |-> 429]
    ELSE IF o.status >= 500
    THEN [name |-> "ServerError", delay |-> Num(0), status |-> o.status]
    ELSE [name |-> "none", delay |-> Num(0), status |-> o.status]

FR_Call(maxAttempts) ==
    /\ fr.pc = "idle"
    /\ fr' = [FrIdle EXCEPT !.pc = "fetch", !.maxAttempts = maxAttempts,
                            !.attempt = 1, !.delay = Num(InitialDelayMs)]
    /\ UNCHANGED <<rateVars, cacheVars, workerVars>>

\* const response = await fetch(url, options), and the code up to the next await
FR_Fetch(o) ==
    LET err   == AttemptError(o, fr.delay)
        delay == IF o.kind = "response" /\ o.status = 429 THEN err.delay ELSE fr.delay
        f1    == [fr EXCEPT !.invocations = @ + 1, !.outcomes = Append(@, o),
                            !.delay = delay]
    IN  /\ fr.pc = "fetch"
        /\ fr' = IF err.name = "none"
                 THEN [f1 EXCEPT !.pc = "returned", !.response = o.status]
                 ELSE IF SleepsBeforeRetry(fr.attempt, fr.maxAttempts)
                 THEN [f1 EXCEPT !.pc = "sleep", !.lastError = err,
                                 !.slept = Append(@, TimeoutMs(delay))]
                 ELSE [f1 EXCEPT !.pc = "threw", !.lastError = err,
                                 !.attempt = @ + 1]
        /\ UNCHANGED <<rateVars, cacheVars, workerVars>>

\* the timer fires: delay = Math.min(delay * 2, 30000); attempt++
FR_Wake ==
    /\ fr.pc = "sleep"
    /\ fr' = LET f1 == [fr EXCEPT !.delay = NextDelay(fr.delay), !.attempt = @ + 1]
             IN  [f1 EXCEPT !.pc = IF f1.attempt <= f1.maxAttempts
                                   THEN "fetch" ELSE "threw"]
    /\ UNCHANGED <<rateVars, cacheVars, workerVars>>

\* the caller takes the response or the error
FR_Collect ==
    /\ fr.pc \in {"returned", "threw"}
    /\ fr' = FrIdle
    /\ UNCHANGED <<rateVars, cacheVars, workerVars>>

InitRetry == fr = FrIdle

-----------------------------------------------------------------------------
(* cachedFetch(request, endpoint, fetchFn) over caches.default             *)

MaxCacheCalls == 2
MaxPendingPuts == 1
CacheTtlScale == 1

\* CACHE_TTL: index 300, status 60, readme 3600, scaled
CACHE_TTL ==
    [index  |-> CacheTtlScale + 1,
     status |-> CacheTtlScale,
     readme |-> CacheTtlScale + 2]

\* const ttl = CACHE_TTL[endpoint] || 60
CacheTtl(endpoint) ==
    IF endpoint \in DOMAIN CACHE_TTL THEN CACHE_TTL[endpoint] ELSE CacheTtlScale

Urls == {"/index", "/index?x"}
Callers == {"ip1", "ip2"}
Bodies == {"b1", "b2"}

\* String.prototype.toLowerCase on the header names in use
LowerCase(name) ==
    CASE name = "Content-Type"  -> "content-type"
      [] name = "Cache-Control" -> "cache-control"
      [] name = "X-Cache"       -> "x-cache"
      [] name = "Access-Control-Allow-Origin" -> "access-control-allow-origin"
      [] name = "X-RateLimit-Limit"     -> "x-ratelimit-limit"
      [] name = "X-RateLimit-Remaining" -> "x-ratelimit-remaining"
      [] name = "X-RateLimit-Reset"     -> "x-ratelimit-reset"
      [] name = "Retry-After"           -> "retry-after"
      [] name = "X-Request-ID"          -> "x-request-id"
      [] OTHER                  -> name

\* a Headers object: a set of [name, value], names lower-cased, one per name
HeaderNames(h) == {x.name : x \in h}
HeaderSet(h, name, value) ==
    {x \in h : x.name # LowerCase(name)}
        \cup {[name |-> LowerCase(name), value |-> value]}
HeaderGet(h, name) ==
    IF \E x \in h : x.name = LowerCase(name)
    THEN (CHOOSE x \in h : x.name = LowerCase(name)).value
    ELSE Null

\* headers a response of fetchFn may carry
UpstreamHeaders ==
    {[name |-> "content-type", value |-> <<"application/json">>],
     [name |-> "etag",         value |-> <<"W/1">>],
     [name |-> "location",     value |-> <<"https://evil.example/">>],
     [name |-> "set-cookie",   value |-> <<"sid=1">>],
     [name |-> "access-control-allow-origin", value |-> <<"*">>]}

HeadersNamed(names) == {x \in UpstreamHeaders : x.name \in names}

\* the header sets tried: none, only allowlisted ones, and mixes with others
UpstreamHeaderSets ==
    {HeadersNamed({}),
     HeadersNamed({"content-type", "etag"}),
     HeadersNamed({"content-type", "access-control-allow-origin"}),
     HeadersNamed({"location", "set-cookie"}),
     UpstreamHeaders}

FetchFnResponses ==
    {[status |-> st, body |-> b, headers |-> h] :
        st \in {200, 404}, b \in Bodies, h \in UpstreamHeaderSets}

safeHeaders_AllowAll == HeaderNames(UpstreamHeaders)
\* const safeHeaders = ['content-type', 'content-length', 'etag', 'last-modified']
safeHeaders == {"content-type", "content-length", "etag", "last-modified"}

CacheKey_PerCaller(request) == [url |-> request.url, method |-> "GET", vary |-> request.caller]
\* const cacheKey = new Request(request.url, {method: 'GET', headers: {}})
CacheKey(request) == [url |-> request.url, method |-> "GET", vary |-> ""]

\* cacheHeaders: the allowlisted headers plus Cache-Control: public, max-age=<ttl>
CacheHeaders(headers, ttl) ==
    HeaderSet({x \in headers : LowerCase(x.name) \in safeHeaders},
              "Cache-Control", <<"public, max-age=">> \o NumToString(ttl))

ResponseToCache(response, ttl) ==
    [status |-> response.status, body |-> response.body,
     headers |-> CacheHeaders(response.headers, ttl)]

\* the freshness lifetime the cache reads from Cache-Control
MaxAge(headers) == parseInt(Tail(HeaderGet(headers, "Cache-Control"))).n

\* await cache.match(cacheKey)
CacheMatch(key) == {c \in cache : c.key = key /\ clock < c.exp}

WithXCache(response, value) ==
    [status |-> response.status, body |-> response.body,
     headers |-> HeaderSet(response.headers, "X-Cache", <<value>>)]

CfIdle ==
    [pc |-> "idle", request |-> [url |-> "", caller |-> ""], endpoint |-> "",
     result |-> [status |-> 0, body |-> "", headers |-> {}],
     fetchCalls |-> 0, found |-> {},
     fetched |-> {},           \* history: the response fetchFn resolved with
     puts |-> 0,               \* history: calls of cache.put made
     storedAtMatch |-> {}]     \* history: fresh entries of the URL at the match

CF_Call(url, caller, endpoint) ==
    /\ cf.pc = "idle"
    /\ cfCalls < MaxCacheCalls
    /\ Cardinality(pendingPuts) < MaxPendingPuts
    /\ cf' = [CfIdle EXCEPT !.pc = "match", !.endpoint = endpoint,
                            !.request = [url |-> url, caller |-> caller]]
    /\ cfCalls' = cfCalls + 1
    /\ UNCHANGED <<rateVars, retryVars, cache, pendingPuts, workerVars>>

\* let response = await cache.match(cacheKey); if (response) return it with X-Cache: HIT
CF_Match ==
    LET hit == CacheMatch(CacheKey(cf.request))
        stored == {c \in cache : c.key.url = cf.request.url /\ clock < c.exp}
    IN  /\ cf.pc = "match"
        /\ cf' = IF hit # {}
                 THEN [cf EXCEPT !.pc = "returned", !.found = hit,
                                 !.storedAtMatch = stored,
                                 !.result = WithXCache(CHOOSE c \in hit : TRUE, "HIT")]
                 ELSE [cf EXCEPT !.pc = "fetchFn", !.storedAtMatch = stored]
        /\ UNCHANGED <<rateVars, retryVars, cache, pendingPuts, cfCalls, workerVars>>

Cacheable_Any(response) == TRUE
\* if (response.status === 200)
Cacheable(response) == response.status = 200

\* the cache.put calls made for a response of fetchFn
PutsIssued(response) ==
    IF Cacheable(response)
    THEN {[key   |-> CacheKey(cf.request),
           entry |-> ResponseToCache(response, CacheTtl(cf.endpoint)),
           from  |-> response]}
    ELSE {}

FetchFnReturned_AwaitsPut(response) ==
    [cf EXCEPT !.pc = IF PutsIssued(response) = {} THEN "returned" ELSE "put",
               !.fetchCalls = @ + 1, !.fetched = {response},
               !.puts = @ + Cardinality(PutsIssued(response)),
               !.result = WithXCache(response, "MISS")]
\* cachedFetch after fetchFn resolved: cache.put(...) is called and not
\* awaited, and the response is returned with X-Cache: MISS
FetchFnReturned(response) ==
    [cf EXCEPT !.pc = "returned", !.fetchCalls = @ + 1, !.fetched = {response},
               !.puts = @ + Cardinality(PutsIssued(response)),
               !.result = WithXCache(response, "MISS")]

\* cachedFetch after fetchFn rejected: it rejects
FetchFnThrew == [cf EXCEPT !.pc = "threw", !.fetchCalls = @ + 1]

\* response = await fetchFn(); a 200 is put (not awaited); return with X-Cache: MISS
CF_FetchFn(response) ==
    /\ cf.pc = "fetchFn"
    /\ pendingPuts' = pendingPuts \cup PutsIssued(response)
    /\ cf' = FetchFnReturned(response)
    /\ UNCHANGED <<rateVars, retryVars, cache, cfCalls, workerVars>>

\* fetchFn rejects: cachedFetch rejects
CF_FetchFnThrows ==
    /\ cf.pc = "fetchFn"
    /\ cf' = FetchFnThrew
    /\ UNCHANGED <<rateVars, retryVars, cache, pendingPuts, cfCalls, workerVars>>

\* a pending cache.put settles: the entry replaces the one of its key
CachePutCompletes(pp) ==
    /\ pp \in pendingPuts
    /\ pendingPuts' = pendingPuts \ {pp}
    /\ cache' = {c \in cache : c.key # pp.key}
          \cup {[key     |-> pp.key,
                 status  |-> pp.entry.status,
                 body    |-> pp.entry.body,
                 headers |-> pp.entry.headers,
                 exp     |-> clock + MaxAge(pp.entry.headers) * 1000,
                 from    |-> pp.from]}
    /\ UNCHANGED <<rateVars, retryVars, cf, cfCalls, workerVars>>

\* a pending cache.put rejects or is dropped with its request context
CachePutFails(pp) ==
    /\ pp \in pendingPuts
    /\ pendingPuts' = pendingPuts \ {pp}
    /\ UNCHANGED <<rateVars, retryVars, cache, cf, cfCalls, workerVars>>

CF_Collect ==
    /\ cf.pc \in {"returned", "threw"}
    /\ cf' = CfIdle
    /\ UNCHANGED <<rateVars, retryVars, cache, pendingPuts, cfCalls, workerVars>>

InitCache ==
    /\ cache = {}
    /\ pendingPuts = {}
    /\ cf = CfIdle
    /\ cfCalls = 0

-----------------------------------------------------------------------------
(* The request handlers: handleIndexFetch, handleSubmit, handleBulkSubmit, *)
(* handleReadmeFetch, handleStatusCheck, behind the router of fetch()      *)

\* String(n)
String(n) == NumToString(n)

\* jsonResponse(data, status): Content-Type and Access-Control-Allow-Origin
jsonResponse(body, status) ==
    [status  |-> status,
     body    |-> body,
     headers |-> HeaderSet(HeaderSet({}, "Content-Type", <<"application/json">>),
                           "Access-Control-Allow-Origin", <<"*">>)]

errorResponse(status, message) == jsonResponse(message, status)

rateLimitResponse(rateLimitResult) ==
    [status  |-> 429,
     body    |-> "Rate limit exceeded",
     headers |->
        HeaderSet(HeaderSet(HeaderSet(HeaderSet(HeaderSet(HeaderSet({},
            "Content-Type", <<"application/json">>),
            "Access-Control-Allow-Origin", <<"*">>),
            "X-RateLimit-Limit", String(rateLimitResult.limit)),
            "X-RateLimit-Remaining", <<"0">>),
            "X-RateLimit-Reset", String(rateLimitResult.resetAt \div 1000)),
            "Retry-After", String(rateLimitResult.retryAfter))]

addRateLimitHeaders(response, rateLimitResult) ==
    [response EXCEPT !.headers =
        HeaderSet(HeaderSet(HeaderSet(@,
            "X-RateLimit-Limit", String(rateLimitResult.limit)),
            "X-RateLimit-Remaining", String(rateLimitResult.remaining)),
            "X-RateLimit-Reset", String(rateLimitResult.resetAt \div 1000))]

addRequestIdHeader(response, requestId) ==
    [response EXCEPT !.headers = HeaderSet(@, "X-Request-ID", String(requestId))]

\* the fallback to X-Forwarded-For that getClientIP had before
getClientIP_TrustForwarded(request) ==
    IF request.cfConnectingIP # "" THEN request.cfConnectingIP
    ELSE IF request.xForwardedFor # "" THEN request.xForwardedFor ELSE "unknown"
\* request.headers.get('CF-Connecting-IP') or 'unknown'; "" is the absent header
getClientIP(request) ==
    IF request.cfConnectingIP # "" THEN request.cfConnectingIP ELSE "unknown"

\* the routes whose parameters the router validates before calling the handler
RouterValidated == {"readme", "status"}
\* the handlers that validate the request body after the rate check
HandlerValidated == {"submit", "bulkSubmit"}

NoResponse == [status |-> 0, body |-> "", headers |-> {}]

NoDecision ==
    [set |-> FALSE, cfConnectingIP |-> "", xForwardedFor |-> "", view |-> {},
     slot |-> 0, allowed |-> FALSE]

HdIdle ==
    [pc |-> "idle",
     request |-> [endpoint |-> "", valid |-> TRUE, cfConnectingIP |-> "",
                  xForwardedFor |-> ""],
     requestId |-> NoRid,
     checked |-> FALSE, rateLimitResult |-> [allowed |-> TRUE],
     response |-> NoResponse,
     upstreamFetches |-> 0,    \* history: upstream fetches made for the request
     upstream |-> << >>,       \* history: the replies of handleIndexFetch's fetches
     calls0 |-> 0,             \* history: calls of checkRateLimit before the request
     cfCalls0 |-> 0,           \* history: calls of cachedFetch before the request
     view |-> {},              \* history: the slot records when the request arrived
     slot |-> 0,               \* history: the second its rate check ran in
     last |-> NoDecision]      \* history: the rate decision of the request before

\* the live slot records of an endpoint, as checkRateLimit's window loop reads them
SlotView(endpoint) ==
    {[key |-> e.key, val |-> e.val] :
        e \in {x \in kv : x.key.kind = "slot" /\ x.key.ep = endpoint /\ clock < x.exp}}

\* fetch(request, env, ctx): a fresh request id, then the route
\* history: the rate decision of the request that has just been served
LastDecision ==
    IF hd.checked
    THEN [set |-> TRUE,
          cfConnectingIP |-> hd.request.cfConnectingIP,
          xForwardedFor |-> hd.request.xForwardedFor,
          view |-> hd.view, slot |-> hd.slot,
          allowed |-> hd.rateLimitResult.allowed]
    ELSE hd.last

\* fetch(request, env, ctx): a fresh request id, then the route
H_Receive(request) ==
    /\ hd.pc \in {"idle", "done", "escaped"}
    /\ ev[SeqProc].pc = "idle"
    /\ cf.pc = "idle"
    /\ calls < MaxCalls
    /\ hd' = IF request.endpoint \in RouterValidated /\ ~request.valid
             THEN [HdIdle EXCEPT !.pc = "responded",
                      !.request = request,
                      !.requestId = nextRid,
                      !.response = errorResponse(400, "Missing owner or repo parameter"),
                      !.calls0 = calls, !.cfCalls0 = cfCalls,
                      !.view = SlotView(request.endpoint), !.last = LastDecision]
             ELSE [HdIdle EXCEPT !.pc = "checkRateLimit",
                      !.request = request,
                      !.requestId = nextRid,
                      !.calls0 = calls, !.cfCalls0 = cfCalls,
                      !.view = SlotView(request.endpoint), !.last = LastDecision]
    /\ UNCHANGED <<rateVars, retryVars, cacheVars>>

\* a request of the client `target` to one route, with no forwarding header
H_Request(endpoint, valid) ==
    H_Receive([endpoint |-> endpoint, valid |-> valid,
               cfConnectingIP |-> target[1], xForwardedFor |-> ""])

\* the handler's call: await checkRateLimit(clientIP, endpoint, env, logger.requestId)
H_CallCheckRateLimit ==
    /\ hd.pc = "checkRateLimit"
    /\ calls = hd.calls0
    /\ Call(SeqProc, getClientIP(hd.request), hd.request.endpoint, hd.requestId)

Continues_Always(rateLimitResult) == TRUE
\* if (!rateLimitResult.allowed) return rateLimitResponse(rateLimitResult)
Continues(rateLimitResult) == rateLimitResult.allowed

\* checkRateLimit has returned to the handler
H_RateLimitResult ==
    LET rateLimitResult == ev[SeqProc].result
        slot == CurrentSlot(ev[SeqProc].now)
    IN  /\ hd.pc = "checkRateLimit"
        /\ ev[SeqProc].pc = "ret"
        /\ hd' = IF ~Continues(rateLimitResult)
                 THEN [hd EXCEPT !.pc = "responded", !.checked = TRUE,
                                 !.slot = slot,
                                 !.rateLimitResult = rateLimitResult,
                                 !.response = rateLimitResponse(rateLimitResult)]
                 ELSE [hd EXCEPT !.checked = TRUE,
                                 !.slot = slot,
                                 !.rateLimitResult = rateLimitResult,
                                 !.pc = IF hd.request.endpoint = "index"
                                        THEN "cachedFetch"
                                        ELSE IF hd.request.endpoint \in HandlerValidated
                                        THEN "validate"
                                        ELSE "upstream"]
        /\ UNCHANGED <<rateVars, retryVars, cacheVars>>

\* whether the handler awaits checkRateLimit inside its try block
\* (handleStatusCheck awaits it before the try)
RateCheckInTry(endpoint) == endpoint # "status"

\* the message of the handler's catch block
CatchMessage(endpoint) ==
    CASE endpoint = "index"  -> "Failed to fetch index"
      [] endpoint = "readme" -> "Failed to fetch README"
      [] OTHER               -> "Internal server error"

\* checkRateLimit has rejected: the handler's catch answers 500, or the
\* rejection leaves the handler and fetch() with it
H_RateLimitRejects ==
    /\ hd.pc = "checkRateLimit"
    /\ ev[SeqProc].pc = "threw"
    /\ hd' = IF RateCheckInTry(hd.request.endpoint)
             THEN [hd EXCEPT !.pc = "responded",
                      !.response = errorResponse(500, CatchMessage(hd.request.endpoint))]
             ELSE [hd EXCEPT !.pc = "escaped"]
    /\ UNCHANGED <<rateVars, retryVars, cacheVars>>

\* handleSubmit / handleBulkSubmit: Content-Type and body checks
H_Validate ==
    /\ hd.pc = "validate"
    /\ hd' = IF hd.request.valid
             THEN [hd EXCEPT !.pc = "upstream"]
             ELSE [hd EXCEPT !.pc = "responded",
                      !.response = addRateLimitHeaders(
                          errorResponse(400, "Invalid request"), hd.rateLimitResult)]
    /\ UNCHANGED <<rateVars, retryVars, cacheVars>>

\* handleIndexFetch: await cachedFetch(request, 'index', fetchFn)
H_CallCachedFetch ==
    /\ hd.pc = "cachedFetch"
    /\ cfCalls = hd.cfCalls0
    /\ CF_Call("/index", getClientIP(hd.request), "index")

\* what the fetchFn of handleIndexFetch resolves to: jsonResponse(indexData)
IndexResponses == {jsonResponse(b, 200) : b \in Bodies}

\* response.ok
Ok(status) == 200 <= status /\ status <= 299

\* replies to fetch(releaseUrl); status 0 stands for a rejected fetch, asset
\* for the release listing an index.json asset
ReleaseReplies ==
    {[op |-> "release", status |-> st, body |-> "", asset |-> FALSE] :
        st \in {404, 429, 503, 0}}
    \cup {[op |-> "release", status |-> 200, body |-> "", asset |-> a] :
        a \in BOOLEAN}

\* replies to fetch(indexAsset.url)
AssetReplies ==
    {[op |-> "asset", status |-> 200, body |-> b, asset |-> TRUE] : b \in Bodies}
    \cup {[op |-> "asset", status |-> st, body |-> "", asset |-> TRUE] :
        st \in {503, 0}}

\* the upstream fetches one run of the fetchFn makes, with their replies
IndexFetchRuns ==
    {<<r>> : r \in {x \in ReleaseReplies : ~(Ok(x.status) /\ x.asset)}}
    \cup {<<r, a>> : r \in {x \in ReleaseReplies : Ok(x.status) /\ x.asset},
                     a \in AssetReplies}

\* the fetchFn handleIndexFetch passes to cachedFetch
IndexFetchFn(run) ==
    LET empty  == [throws |-> FALSE, response |-> jsonResponse("empty", 200)]
        thrown == [throws |-> TRUE, response |-> NoResponse]
    IN  IF run[1].status = 0 THEN thrown
        ELSE IF ~Ok(run[1].status)
        THEN (IF run[1].status = 404 THEN empty ELSE thrown)
        ELSE IF ~run[1].asset THEN empty
        ELSE IF run[2].status = 0 \/ ~Ok(run[2].status) THEN thrown
        ELSE [throws |-> FALSE, response |-> jsonResponse(run[2].body, 200)]

\* cachedFetch awaits fetchFn(): the fetches of handleIndexFetch run
H_IndexFetchFn(run) ==
    LET out == IndexFetchFn(run)
    IN  /\ hd.pc = "cachedFetch"
        /\ cf.pc = "fetchFn"
        /\ cf' = IF out.throws THEN FetchFnThrew ELSE FetchFnReturned(out.response)
        /\ pendingPuts' = IF out.throws THEN pendingPuts
                          ELSE pendingPuts \cup PutsIssued(out.response)
        /\ hd' = [hd EXCEPT !.upstream = @ \o run,
                            !.upstreamFetches = @ + Len(run)]
        /\ UNCHANGED <<rateVars, retryVars, cache, cfCalls>>

\* cachedFetch has returned to handleIndexFetch, or rejected into its catch
H_CachedFetchResult ==
    /\ hd.pc = "cachedFetch"
    /\ cf.pc \in {"returned", "threw"}
    /\ hd' = [hd EXCEPT !.pc = "responded",
                !.response =
                    IF cf.pc = "returned"
                    THEN addRateLimitHeaders(cf.result, hd.rateLimitResult)
                    ELSE errorResponse(500, "Failed to fetch index")]
    /\ UNCHANGED <<rateVars, retryVars, cacheVars>>

UpstreamOutcomes == {"ok", "refused", "throws"}

\* the upstream work of handleSubmit, handleBulkSubmit, handleReadmeFetch and
\* handleStatusCheck, by how it ends
H_Upstream(outcome) ==
    LET endpoint == hd.request.endpoint
        answer ==
            CASE outcome = "ok" -> jsonResponse("ok", 200)
              [] outcome = "refused" ->
                    IF endpoint \in {"submit", "readme"}
                    THEN errorResponse(404, "not found")
                    ELSE jsonResponse("offline", 200)
              [] OTHER -> jsonResponse("error", 200)
        caught == outcome = "throws" /\ endpoint \in {"submit", "readme"}
    IN  /\ hd.pc = "upstream"
        /\ hd' = [hd EXCEPT !.pc = "responded",
                    !.upstreamFetches = @ + 1,
                    !.response =
                        IF caught
                        THEN errorResponse(500, "Internal server error")
                        ELSE addRateLimitHeaders(answer, hd.rateLimitResult)]
        /\ UNCHANGED <<rateVars, retryVars, cacheVars>>

\* return addRequestIdHeader(response, requestId)
H_Return ==
    /\ hd.pc = "responded"
    /\ hd' = [hd EXCEPT !.pc = "done",
                        !.response = addRequestIdHeader(hd.response, hd.requestId)]
    /\ UNCHANGED <<rateVars, retryVars, cacheVars>>

InitWorker == hd = HdIdle

-----------------------------------------------------------------------------
(* SpecSeq: checkRateLimit evaluated one call after another, store up      *)

InitSeq ==
    /\ InitRate
    /\ InitRetry
    /\ InitCache
    /\ InitWorker
    /\ env = [RATE_LIMIT |-> TRUE]
    /\ target \in {SeqIP} \X Endpoints

NextSeq ==
    \/ \E requestId \in 1..MaxCalls : Call(SeqProc, target[1], target[2], requestId)
    \/ CheckRateLimitStep(SeqProc)
    \/ Collect(SeqProc)
    \/ Tick

SpecSeq == InitSeq /\ [][NextSeq]_vars

-----------------------------------------------------------------------------
(* SpecFail: as SpecSeq, and any awaited store operation may reject        *)

NextFail ==
    \/ NextSeq
    \/ CRL_StoreThrows(SeqProc)

SpecFail == InitSeq /\ [][NextFail]_vars

-----------------------------------------------------------------------------
(* SpecBinding: as SpecSeq, in a deployment with or without the RATE_LIMIT *)
(* binding                                                                 *)

InitBinding ==
    /\ InitRate
    /\ InitRetry
    /\ InitCache
    /\ InitWorker
    /\ env \in {[RATE_LIMIT |-> bound] : bound \in BOOLEAN}
    /\ target \in {SeqIP} \X Endpoints

SpecBinding == InitBinding /\ [][NextSeq]_vars

-----------------------------------------------------------------------------
(* SpecPairs: sequential evaluations of checkRateLimit for two callers and *)
(* two endpoints, request ids reused across them, store up                 *)

CallerEndpointPairs ==
    {<<"ip1", "status">>, <<"ip2", "status">>, <<"ip1", "index">>}

MaxPairCalls == 3

InitPairs ==
    /\ InitRate
    /\ InitRetry
    /\ InitCache
    /\ InitWorker
    /\ env = [RATE_LIMIT |-> TRUE]
    /\ target = <<SeqIP, "status">>

NextPairs ==
    \/ \E w \in CallerEndpointPairs, requestId \in 1..MaxPairCalls :
          calls < MaxPairCalls /\ Call(SeqProc, w[1], w[2], requestId)
    \/ CheckRateLimitStep(SeqProc)
    \/ Collect(SeqProc)
    \/ Tick

SpecPairs == InitPairs /\ [][NextPairs]_vars

-----------------------------------------------------------------------------
(* SpecRetry: calls of fetchWithRetry, each attempt with any outcome      *)

InitRetryOnly ==
    /\ InitRate
    /\ env = [RATE_LIMIT |-> TRUE]
    /\ target = <<SeqIP, "submit">>
    /\ InitRetry
    /\ InitCache
    /\ InitWorker

NextRetry ==
    \/ \E n \in 1..MaxAttemptsArg : FR_Call(n)
    \/ \E o \in FetchOutcomes : FR_Fetch(o)
    \/ FR_Wake
    \/ FR_Collect

SpecRetry == InitRetryOnly /\ [][NextRetry]_vars

-----------------------------------------------------------------------------
(* SpecCache: calls of cachedFetch with any fetchFn, puts settling later   *)

NextCache ==
    \/ \E url \in Urls, caller \in Callers : CF_Call(url, caller, "index")
    \/ CF_Match
    \/ \E response \in FetchFnResponses : CF_FetchFn(response)
    \/ CF_FetchFnThrows
    \/ \E pp \in pendingPuts : CachePutCompletes(pp)
    \/ \E pp \in pendingPuts : CachePutFails(pp)
    \/ CF_Collect
    \/ Tick

SpecCache == InitRetryOnly /\ [][NextCache]_vars

-----------------------------------------------------------------------------
(* SpecWorker: requests of one client to one route, one after another,     *)
(* store up                                                                *)

NextWorker ==
    \/ \E valid \in BOOLEAN : H_Request(target[2], valid)
    \/ H_CallCheckRateLimit
    \/ CheckRateLimitStep(SeqProc)
    \/ H_RateLimitResult
    \/ (hd.pc # "checkRateLimit" /\ Collect(SeqProc))
    \/ H_Validate
    \/ H_CallCachedFetch
    \/ (hd.pc = "cachedFetch" /\ CF_Match)
    \/ \E run \in IndexFetchRuns : H_IndexFetchFn(run)
    \/ H_CachedFetchResult
    \/ (hd.pc # "cachedFetch" /\ CF_Collect)
    \/ \E pp \in pendingPuts : CachePutCompletes(pp)
    \/ \E pp \in pendingPuts : CachePutFails(pp)
    \/ \E outcome \in UpstreamOutcomes : H_Upstream(outcome)
    \/ H_Return
    \/ Tick

SpecWorker == InitSeq /\ [][NextWorker]_vars

-----------------------------------------------------------------------------
(* SpecOutage: as SpecWorker, and any store operation awaited by the rate  *)
(* check may reject                                                        *)

MaxOutageRequests == 2

NextOutage ==
    \/ (calls < MaxOutageRequests /\ \E valid \in BOOLEAN : H_Request(target[2], valid))
    \/ H_CallCheckRateLimit
    \/ CheckRateLimitStep(SeqProc)
    \/ CRL_StoreThrows(SeqProc)
    \/ H_RateLimitResult
    \/ H_RateLimitRejects
    \/ (hd.pc # "checkRateLimit" /\ Collect(SeqProc))
    \/ H_Validate
    \/ H_CallCachedFetch
    \/ (hd.pc = "cachedFetch" /\ CF_Match)
    \/ \E run \in IndexFetchRuns : H_IndexFetchFn(run)
    \/ H_CachedFetchResult
    \/ (hd.pc # "cachedFetch" /\ CF_Collect)
    \/ \E pp \in pendingPuts : CachePutCompletes(pp)
    \/ \E pp \in pendingPuts : CachePutFails(pp)
    \/ \E outcome \in UpstreamOutcomes : H_Upstream(outcome)
    \/ H_Return
    \/ Tick

SpecOutage == InitSeq /\ [][NextOutage]_vars

-----------------------------------------------------------------------------
(* SpecIdent: requests to /status that carry or lack CF-Connecting-IP and  *)
(* carry any X-Forwarded-For                                               *)

InitIdent ==
    /\ InitRate
    /\ InitRetry
    /\ InitCache
    /\ InitWorker
    /\ env = [RATE_LIMIT |-> TRUE]
    /\ target = <<SeqIP, "status">>

NextIdent ==
    \/ \E cfConnectingIP \in {target[1], ""}, xForwardedFor \in ForwardedFor :
          H_Receive([endpoint |-> target[2], valid |-> TRUE,
                     cfConnectingIP |-> cfConnectingIP,
                     xForwardedFor |-> xForwardedFor])
    \/ H_CallCheckRateLimit
    \/ CheckRateLimitStep(SeqProc)
    \/ H_RateLimitResult
    \/ (hd.pc # "checkRateLimit" /\ Collect(SeqProc))
    \/ \E outcome \in UpstreamOutcomes : H_Upstream(outcome)
    \/ H_Return
    \/ (hd.pc # "checkRateLimit" /\ Tick)

SpecIdent == InitIdent /\ [][NextIdent]_vars

-----------------------------------------------------------------------------
(* SpecBackoff: calls of fetchWithRetry whose failing attempts are 5xx     *)
(* responses or rejected fetches, long enough to reach the delay cap       *)

MaxBackoffAttempts == 7

BackoffOutcomes ==
    {o \in FetchOutcomes : o.kind = "throws" \/ o.status \in {200, 503}}

NextBackoff ==
    \/ \E n \in 1..MaxBackoffAttempts : FR_Call(n)
    \/ \E o \in BackoffOutcomes : FR_Fetch(o)
    \/ FR_Wake
    \/ FR_Collect

SpecBackoff == InitRetryOnly /\ [][NextBackoff]_vars

-----------------------------------------------------------------------------
(* SpecConc: two evaluations of checkRateLimit for one (caller, endpoint)  *)
(* whose store reads and writes interleave freely, store up                *)

ConcEndpoints == {"index", "status"}

InitConc ==
    /\ InitRate
    /\ InitRetry
    /\ InitCache
    /\ InitWorker
    /\ env = [RATE_LIMIT |-> TRUE]
    /\ target \in {SeqIP} \X ConcEndpoints

NextConc ==
    \/ \E p \in Procs, requestId \in 1..MaxCalls :
          Call(p, target[1], target[2], requestId)
    \/ \E p \in Procs : CheckRateLimitStep(p)
    \/ \E p \in Procs : Collect(p)
    \/ Tick

SpecConc == InitConc /\ [][NextConc]_vars

-----------------------------------------------------------------------------
(* Properties of checkRateLimit                                            *)

RECURSIVE SumOver(_, _)
SumOver(f, S) ==
    IF S = {} THEN 0
    ELSE LET x == CHOOSE y \in S : TRUE IN f[x] + SumOver(f, S \ {x})

\* evaluations admitted for (ip, endpoint) in the trailing window of slot s
AdmittedInWindow(ip, endpoint, s) ==
    SumOver(admitted[<<ip, endpoint>>],
            {k \in 0..MaxSlot : s - RATE_LIMITS[endpoint].windowSeconds < k /\ k <= s})

Returned(p) == ev[p].pc = "ret"

\* C1: in a sequential run with the store up, a request with a new id that
\* finds fewer than `limit` admitted requests of its (caller, endpoint) in its
\* window is admitted, and one that finds exactly `limit` of them is denied
\* with retryAfter > 0, whichever seconds of the window the requests fell on.
C1_WindowBound ==
    \A p \in Procs :
        (Returned(p) /\ ev[p].fresh) =>
            LET n     == AdmittedInWindow(ev[p].ip, ev[p].ep, CurrentSlot(ev[p].now))
                limit == RATE_LIMITS[ev[p].ep].limit
            IN  /\ (n < limit => ev[p].result.allowed)
                /\ (n = limit => (~ev[p].result.allowed /\ ev[p].result.retryAfter > 0))

\* C2: the k-th request admitted inside one window (k <= limit) returns
\* remaining = limit - k, also when requests share a second.
C2_RemainingCountsDown ==
    \A p \in Procs :
        (Returned(p) /\ ev[p].fresh /\ ev[p].result.allowed) =>
            LET n     == AdmittedInWindow(ev[p].ip, ev[p].ep, CurrentSlot(ev[p].now))
                limit == RATE_LIMITS[ev[p].ep].limit
            IN  n < limit => ev[p].result.remaining = limit - (n + 1)

\* the decision first returned for the triple of activation p, if its
\* idempotency TTL has not run out
FirstWithinTtl(p) ==
    {f \in firstDecision :
        /\ f.id = <<ev[p].ip, ev[p].ep, ev[p].rid>>
        /\ ev[p].now < f.at + IdemTtlSeconds * 1000}

\* C3: a second sequential evaluation with the same (caller, endpoint,
\* requestId) within the idempotency TTL returns the first decision, field
\* for field, and performs no window read and no counter-record write.
C3_IdempotentReplay ==
    \A p \in Procs :
        (Returned(p) /\ ev[p].rid # NoRid) =>
            \A f \in FirstWithinTtl(p) :
                /\ ev[p].result = f.d
                /\ ev[p].gets = 0
                /\ ev[p].puts = 0

\* a replay of a denied decision has returned
C3_Witness ==
    \E p \in Procs :
        /\ Returned(p) /\ ev[p].dupHit
        /\ FirstWithinTtl(p) # {}
        /\ ~ev[p].result.allowed

\* C4: when a store get or put throws during checkRateLimit for submit or
\* bulkSubmit, checkRateLimit returns the denial with retryAfter = 60.
C4_FailClosed ==
    \A p \in Procs :
        (ev[p].storeFailed /\ ev[p].ep \in {"submit", "bulkSubmit"}) =>
            /\ Returned(p)
            /\ ~ev[p].result.allowed
            /\ ev[p].result.retryAfter = FailRetryAfter

-----------------------------------------------------------------------------
(* Properties of fetchWithRetry                                            *)

Failed(o) == o.kind = "throws" \/ o.status = 429 \/ o.status >= 500

\* C8: with maxAttempts = n >= 1 and every attempt failing, the operation is
\* invoked exactly n times, n - 1 sleeps are made, none after the last
\* attempt, and the error of the n-th attempt is thrown; no run makes more
\* than n invocations.
C8_Exhaustion ==
    /\ fr.invocations <= fr.maxAttempts
    /\ fr.pc = "threw" =>
          /\ \A k \in 1..Len(fr.outcomes) : Failed(fr.outcomes[k])
          /\ fr.invocations = fr.maxAttempts
          /\ Len(fr.slept) = fr.maxAttempts - 1
          /\ fr.lastError.status = fr.outcomes[fr.maxAttempts].status
          /\ fr.lastError.name =
                (IF fr.outcomes[fr.maxAttempts].kind = "throws" THEN "FetchError"
                 ELSE IF fr.outcomes[fr.maxAttempts].status = 429 THEN "RateLimited"
                 ELSE "ServerError")

\* three attempts have failed in three different ways and the last error is thrown
C8_Witness ==
    /\ fr.pc = "threw"
    /\ fr.maxAttempts = 3
    /\ fr.outcomes[1].status = 503
    /\ fr.outcomes[2].status = 429
    /\ fr.outcomes[3].kind = "throws"

\* C9: every delay waited between two attempts is at most 30000 ms.
C9_DelayCapped ==
    \A k \in 1..Len(fr.slept) : fr.slept[k] <= MaxDelayMs

\* C17: the first response whose status is neither 429 nor >= 500 is returned
\* at once: if it comes at attempt j, then j invocations and j - 1 sleeps have
\* been made, it is the value returned, and nothing follows it.
C17_ReturnsFirstGoodResponse ==
    \A j \in 1..Len(fr.outcomes) :
        (fr.outcomes[j].kind = "response" /\ fr.outcomes[j].status # 429
            /\ fr.outcomes[j].status < 500)
          => /\ fr.pc = "returned"
             /\ j = Len(fr.outcomes)
             /\ j <= fr.maxAttempts
             /\ fr.invocations = j
             /\ Len(fr.slept) = j - 1
             /\ fr.response = fr.outcomes[j].status

\* a 404 returned at the third attempt, after a 503 and a 429
C17_Witness ==
    /\ fr.pc = "returned"
    /\ Len(fr.outcomes) = 3
    /\ fr.outcomes[1].status = 503
    /\ fr.outcomes[2].status = 429
    /\ fr.outcomes[3].status = 404
    /\ fr.response = 404

\* C19: when the failed attempts of a call are 5xx responses or thrown
\* errors, the k-th delay between attempts is min(1000 * 2^(k-1), 30000) ms:
\* the delays never decrease and strictly increase below the cap.
C19_BackoffSchedule ==
    (\A j \in 1..Len(fr.outcomes) :
        fr.outcomes[j].kind = "throws" \/ fr.outcomes[j].status # 429)
      => /\ \A k \in 1..Len(fr.slept) :
               fr.slept[k] = (IF 1000 * 2^(k-1) < 30000 THEN 1000 * 2^(k-1) ELSE 30000)
         /\ \A k \in 2..Len(fr.slept) :
               /\ fr.slept[k-1] <= fr.slept[k]
               /\ fr.slept[k-1] < 30000 => fr.slept[k-1] < fr.slept[k]

\* six failures in a row: the sixth delay is the cap, after 16000 ms
C19_Witness ==
    /\ Len(fr.slept) = 6
    /\ fr.slept[5] = 16000
    /\ fr.slept[6] = 30000
    /\ \E j \in 1..6 : fr.outcomes[j].kind = "throws"
    /\ \E j \in 1..6 : fr.outcomes[j].status = 503

\* attempt j of the call was answered 429 without a Retry-After header
BareRateLimited(j) ==
    /\ fr.outcomes[j].kind = "response"
    /\ fr.outcomes[j].status = 429
    /\ fr.outcomes[j].retryAfter = << >>

\* C23: when two consecutive attempts are answered 429 without Retry-After,
\* the delay after the second is exactly twice the delay after the first,
\* or the cap of 30000 ms once twice the preceding delay exceeds it.
C23_DoublesOncePerAttempt ==
    \A k \in 2..Len(fr.slept) :
        (BareRateLimited(k - 1) /\ BareRateLimited(k)) =>
            fr.slept[k] = (IF 2 * fr.slept[k-1] < 30000
                           THEN 2 * fr.slept[k-1] ELSE 30000)

-----------------------------------------------------------------------------
(* Properties of cachedFetch                                               *)

\* C6: every entry put in the cache, pending or stored, has only headers among
\* content-type, content-length, etag, last-modified and Cache-Control,
\* whatever fetchFn returned; and a response served on a hit carries none of
\* the other upstream headers.
C6_CacheAllowlist ==
    LET allowed == {"content-type", "content-length", "etag", "last-modified",
                    "cache-control"}
    IN  /\ \A c \in cache : HeaderNames(c.headers) \subseteq allowed
        /\ \A pp \in pendingPuts : HeaderNames(pp.entry.headers) \subseteq allowed
        /\ (cf.pc = "returned" /\ cf.found # {})
              => HeaderNames(cf.result.headers) \subseteq allowed \cup {"x-cache"}

\* a hit served from an entry whose upstream response had Location and Set-Cookie
C6_Witness ==
    /\ cf.pc = "returned"
    /\ \E c \in cf.found :
          {"location", "set-cookie"} \subseteq HeaderNames(c.from.headers)

\* C7: a cachedFetch whose match ran while a completed put of a 200 for its
\* URL was unexpired returns that entry's status and body with X-Cache: HIT
\* and has not invoked fetchFn.
C7_HitRoundTrip ==
    (cf.pc \in {"fetchFn", "returned", "threw"} /\ cf.storedAtMatch # {})
        => /\ cf.pc = "returned"
           /\ cf.fetchCalls = 0
           /\ HeaderGet(cf.result.headers, "X-Cache") = <<"HIT">>
           /\ \A c \in cf.storedAtMatch :
                 /\ c.from.status = 200
                 /\ cf.result.status = c.from.status
                 /\ cf.result.body = c.from.body

\* a hit for a caller after time has passed since the entry was stored
C7_Witness ==
    /\ cf.pc = "returned"
    /\ cf.storedAtMatch # {}
    /\ clock > 0
    /\ cf.request.caller = "ip2"
    /\ cf.result.body = "b2"

\* C15: every response cachedFetch returns, MISS or HIT, carries X-Cache and,
\* besides Cache-Control, only headers among content-type, content-length,
\* etag and last-modified.
C15_ReturnedHeadersAllowlisted ==
    cf.pc = "returned"
        => /\ "x-cache" \in HeaderNames(cf.result.headers)
           /\ HeaderNames(cf.result.headers) \subseteq
                {"content-type", "content-length", "etag", "last-modified",
                 "cache-control", "x-cache"}

\* C18: the cache holds, and is sent, only entries of status 200; a
\* cachedFetch whose fetchFn returned another status has made no cache.put and
\* returns that status with X-Cache: MISS.
C18_OnlyOkCached ==
    /\ \A c \in cache : c.status = 200 /\ c.from.status = 200
    /\ \A pp \in pendingPuts : pp.entry.status = 200
    /\ (cf.pc = "returned" /\ cf.fetchCalls > 0 /\ cf.result.status # 200)
          => /\ cf.puts = 0
             /\ HeaderGet(cf.result.headers, "x-cache") = <<"MISS">>

\* a 404 of fetchFn has been returned while the cache holds an entry of another URL
C18_Witness ==
    /\ cf.pc = "returned"
    /\ cf.fetchCalls = 1
    /\ cf.result.status = 404
    /\ cache # {}
    /\ pendingPuts = {}

\* C24: cachedFetch returns the MISS response as soon as cache.put has been
\* called: while the put is pending, after it completed and after it failed
\* the call has returned, never thrown, and what it returned is the response
\* of fetchFn with X-Cache: MISS.
C24_MissNotAwaitingPut ==
    /\ (cf.fetchCalls > 0 /\ cf.puts > 0) => cf.pc = "returned"
    /\ (cf.pc = "returned" /\ cf.fetchCalls > 0) =>
          \A r \in cf.fetched :
              /\ cf.result.status = r.status
              /\ cf.result.body = r.body
              /\ cf.result.headers =
                    {x \in r.headers : x.name # "x-cache"}
                        \cup {[name |-> "x-cache", value |-> <<"MISS">>]}

\* a 200 was returned on a miss and its put has failed: nothing is pending
\* and nothing was stored
C24_Witness ==
    /\ cf.pc = "returned"
    /\ cf.fetchCalls = 1
    /\ cf.puts = 1
    /\ cf.result.status = 200
    /\ pendingPuts = {}
    /\ cache = {}
    /\ clock = 0

-----------------------------------------------------------------------------
(* Properties of the handlers                                              *)

\* C10: in each of the five rate-limited handlers, a request for which
\* checkRateLimit returned allowed = false is answered with status 429 carrying
\* Retry-After and X-RateLimit-Limit, -Remaining and -Reset, and no cache
\* lookup, no cache write and no upstream fetch is made for it.
C10_DeniedStops ==
    (hd.checked /\ ~hd.rateLimitResult.allowed)
        => /\ hd.pc \in {"responded", "done"}
           /\ hd.response.status = 429
           /\ HeaderGet(hd.response.headers, "retry-after")
                 = NumToString(hd.rateLimitResult.retryAfter)
           /\ HeaderGet(hd.response.headers, "x-ratelimit-limit")
                 = NumToString(hd.rateLimitResult.limit)
           /\ HeaderGet(hd.response.headers, "x-ratelimit-remaining") = <<"0">>
           /\ HeaderGet(hd.response.headers, "x-ratelimit-reset")
                 = NumToString(hd.rateLimitResult.resetAt \div 1000)
           /\ cfCalls = hd.cfCalls0
           /\ cf.pc = "idle"
           /\ hd.upstreamFetches = 0

\* a denied /index request has been answered, after earlier ones used the cache
C10_Witness ==
    /\ hd.pc = "done"
    /\ hd.checked
    /\ ~hd.rateLimitResult.allowed
    /\ hd.response.status = 429
    /\ hd.request.endpoint = "index"
    /\ cfCalls > 0

\* C11: every response returned for a request to /submit, /bulk-submit,
\* /index, /readme or /status carries X-RateLimit-Limit, X-RateLimit-Remaining
\* and X-RateLimit-Reset, on the admitted, denied, validation-error and
\* caught-failure paths alike.
C11_QuotaHeadersAlways ==
    hd.pc \in {"responded", "done"}
        => {"x-ratelimit-limit", "x-ratelimit-remaining", "x-ratelimit-reset"}
              \subseteq HeaderNames(hd.response.headers)

\* C13: an invalid request, on /submit, /bulk-submit, /readme or /status, is
\* rejected without checkRateLimit being called for it: no store read or
\* write is made and no admission is recorded for it.
C13_InvalidBeforeRateLimit ==
    (hd.pc # "idle" /\ ~hd.request.valid)
        => /\ calls = hd.calls0
           /\ ~hd.checked
           /\ ev[SeqProc].pc = "idle"

\* C16: when, on a cache miss of an admitted /index request, an upstream
\* fetch is answered 429 or >= 500 and the request is failed, that fetch has
\* been attempted again before.
C16_MissRetried ==
    LET n    == Len(hd.upstream)
        last == hd.upstream[n]
    IN  (hd.pc \in {"responded", "done"} /\ n > 0
           /\ (last.status = 429 \/ last.status >= 500)
           /\ hd.response.status >= 500)
          => Cardinality({k \in 1..n : hd.upstream[k].op = last.op}) >= 2

\* the headers of a response other than X-Cache and Cache-Control
ComparedHeaders(headers) ==
    {x \in headers : x.name \notin {"x-cache", "cache-control"}}

\* C30: a 200 of GET /index carries Access-Control-Allow-Origin: * on a
\* cache hit as on a miss, and apart from X-Cache and Cache-Control the
\* response cachedFetch returns on a hit has the headers of the miss response
\* that populated the entry.
C30_HitSameHeaders ==
    /\ (hd.pc \in {"responded", "done"} /\ hd.request.endpoint = "index"
           /\ hd.response.status = 200)
          => HeaderGet(hd.response.headers, "Access-Control-Allow-Origin") = <<"*">>
    /\ (hd.request.endpoint = "index" /\ cf.pc = "returned" /\ cf.found # {})
          => \A c \in cf.found :
                ComparedHeaders(cf.result.headers) = ComparedHeaders(c.from.headers)

\* C25: every request dispatched to a rate-limited route ends with a
\* returned Response; no exception leaves fetch(), also when a store get or
\* put rejects during the rate check.
C25_AlwaysResponds ==
    /\ hd.pc # "escaped"
    /\ hd.pc = "done" => hd.response # NoResponse

-----------------------------------------------------------------------------
(* Further properties of checkRateLimit                                    *)

\* C12: an evaluation during which a store operation threw ends by
\* returning a decision that admits the request on index, status and readme
\* (fail open) and denies it on submit and bulkSubmit (fail closed).
C12_FailPolicyByClass ==
    \A p \in Procs :
        ev[p].storeFailed =>
            /\ ev[p].pc = "ret"
            /\ ev[p].result.allowed = (ev[p].ep \in {"index", "status", "readme"})

\* C26: without the RATE_LIMIT binding every evaluation, of every endpoint
\* class and however many the caller has made, is admitted with remaining =
\* limit and resetAt one window after now, and no store operation is made.
C26_UnboundAdmitsAll ==
    ~env.RATE_LIMIT =>
        /\ kv = {}
        /\ \A p \in Procs :
              /\ ev[p].pc \in {"idle", "ret"}
              /\ ev[p].gets = 0 /\ ev[p].puts = 0
              /\ Returned(p) =>
                    ev[p].result =
                        [allowed   |-> TRUE,
                         limit     |-> RATE_LIMITS[ev[p].ep].limit,
                         remaining |-> RATE_LIMITS[ev[p].ep].limit,
                         resetAt   |-> ev[p].now
                                         + RATE_LIMITS[ev[p].ep].windowSeconds * 1000]

\* the fourth bulk submission of a caller within one second, admitted
C26_Witness ==
    /\ ~env.RATE_LIMIT
    /\ calls = 4
    /\ nextRid = 5
    /\ clock = 0
    /\ Returned(SeqProc)
    /\ ev[SeqProc].ep = "bulkSubmit"
    /\ ev[SeqProc].result.allowed

-----------------------------------------------------------------------------
(* Properties of getClientIP                                               *)

\* C14: the caller id a request is rate limited under is its
\* CF-Connecting-IP, or 'unknown' when it has none, whatever its
\* X-Forwarded-For: no store key is ever derived from X-Forwarded-For, and two
\* consecutive requests with the same CF-Connecting-IP that met the same slot
\* records in the same second got the same decision.
C14_CallerIdFromEdgeOnly ==
    LET id == IF hd.request.cfConnectingIP # ""
              THEN hd.request.cfConnectingIP ELSE "unknown"
    IN  /\ (hd.pc = "checkRateLimit" /\ ev[SeqProc].pc # "idle") => ev[SeqProc].ip = id
        /\ \A e \in kv : e.key.ip \in IPs \cup {"unknown"}
        /\ (hd.checked /\ hd.last.set
              /\ hd.last.cfConnectingIP = hd.request.cfConnectingIP
              /\ hd.last.view = hd.view /\ hd.last.slot = hd.slot)
             => hd.last.allowed = hd.rateLimitResult.allowed

\* two consecutive requests without CF-Connecting-IP, differing in
\* X-Forwarded-For, decided in the same second on the same slot records
C14_Witness ==
    /\ hd.checked /\ hd.last.set
    /\ hd.request.cfConnectingIP = "" /\ hd.last.cfConnectingIP = ""
    /\ hd.request.xForwardedFor # hd.last.xForwardedFor
    /\ hd.last.view = hd.view /\ hd.last.slot = hd.slot
    /\ hd.view # {}
    /\ \E e \in kv : e.key.ip = "unknown"

-----------------------------------------------------------------------------
(* Properties of the counter records                                       *)

\* C20: each admitted evaluation leaves a counter record of its own: once
\* an evaluation is over, the live slot records of a (caller, endpoint) inside
\* the trailing window are as many as the requests admitted in that window,
\* also when several were admitted in the same second.
C20_OneRecordPerAdmission ==
    AllIdle =>
        \A ip \in IPs, endpoint \in Endpoints :
            LET s == CurrentSlot(clock)
                records ==
                    {e \in kv : /\ e.key = SlotKey(endpoint, ip, e.key.n)
                                /\ s - RATE_LIMITS[endpoint].windowSeconds < e.key.n
                                /\ e.key.n <= s
                                /\ clock < e.exp}
            IN  Cardinality(records) = AdmittedInWindow(ip, endpoint, s)

-----------------------------------------------------------------------------
(* Properties of overlapping evaluations                                   *)

\* C21: with at most k evaluations of checkRateLimit for one (caller,
\* endpoint) in flight at a time (here k = 2), the requests admitted inside
\* one window never exceed limit + k - 1, under every interleaving.
C21_OverAdmissionBound ==
    \A ip \in IPs, endpoint \in Endpoints, s \in 0..MaxSlot :
        AdmittedInWindow(ip, endpoint, s)
            <= RATE_LIMITS[endpoint].limit + Cardinality(Procs) - 1

\* the two activations evaluate the same (caller, endpoint, requestId) and
\* both have their decision
SameRequestReturned ==
    /\ \A p \in Procs : Returned(p)
    /\ \A p, q \in Procs :
          /\ ev[p].rid # NoRid
          /\ <<ev[p].ip, ev[p].ep, ev[p].rid>> = <<ev[q].ip, ev[q].ep, ev[q].rid>>

\* C22: two overlapping evaluations of checkRateLimit with the same (caller,
\* endpoint, requestId) return the same decision and write at most one
\* counter record between them, under every interleaving.
C22_ConcurrentReplay ==
    SameRequestReturned =>
        /\ \A p, q \in Procs : ev[p].result = ev[q].result
        /\ SumOver([p \in Procs |-> ev[p].puts], Procs) <= 1

-----------------------------------------------------------------------------
(* Properties of the frame of checkRateLimit                               *)

\* the counter records of a store state
SlotRecords(store) == {e \in store : e.key.kind = "slot"}

\* activation p takes a step on the denial path: out of the window loop
\* with a denial, or storing that denial under its request id
DenialStep(p) ==
    /\ ev[p].pc \in {"scan", "putReq"}
    /\ ev'[p].pc \in {"putReq", "ret"}
    /\ ev'[p] # ev[p]
    /\ ~ev'[p].result.allowed

\* C27: a denied evaluation writes no counter record: on every step of the
\* denial path the counter records of the store stay as they were, the
\* evaluation has made no counter put, and the only write is the
\* idempotency record of its request id.
C27_DenialWritesNoCounter ==
    [][\A p \in Procs :
          DenialStep(p) =>
              /\ ev'[p].puts = 0
              /\ SlotRecords(kv') = SlotRecords(kv)
              /\ \A e \in kv' \ kv :
                    /\ e.key.kind = "reqid"
                    /\ e.key.n = ev[p].rid
                    /\ e.val = JSONstringify(ev'[p].result)]_vars

\* a denial has been returned and stored under its request id while the
\* window holds a counter record
C27_Witness ==
    /\ Returned(SeqProc)
    /\ ~ev[SeqProc].dupHit
    /\ ~ev[SeqProc].result.allowed
    /\ ev[SeqProc].puts = 0
    /\ SlotRecords(kv) # {}
    /\ \E e \in kv : e.key.kind = "reqid" /\ e.key.n = ev[SeqProc].rid

\* the live counter records of (ip, endpoint) inside the window of slot s
OwnWindowRecords(ip, endpoint, s) ==
    {e \in kv : /\ e.key.kind = "slot"
                /\ e.key.ip = ip /\ e.key.ep = endpoint
                /\ s - RATE_LIMITS[endpoint].windowSeconds < e.key.n
                /\ e.key.n <= s
                /\ clock < e.exp}

\* C28: evaluations for (caller A, endpoint X) use only the store keys of
\* (A, X): every counter record belongs to a pair that was admitted in that
\* slot, a decision follows from the records of its own pair whatever the
\* other pairs have stored, and a replayed decision is one first returned
\* for the same caller, endpoint and request id.
C28_KeyIsolation ==
    /\ \A e \in SlotRecords(kv) :
          /\ e.key.ip \in IPs
          /\ \/ admitted[<<e.key.ip, e.key.ep>>][e.key.n] > 0
             \/ \E p \in Procs :
                   /\ ev[p].pc \in {"putReq", "ret"}
                   /\ <<ev[p].ip, ev[p].ep, CurrentSlot(ev[p].now)>>
                         = <<e.key.ip, e.key.ep, e.key.n>>
                   /\ ev[p].puts = 1
    /\ \A p \in Procs :
          (Returned(p) /\ ~ev[p].dupHit) =>
              LET n     == Cardinality(OwnWindowRecords(ev[p].ip, ev[p].ep,
                                                        CurrentSlot(ev[p].now)))
                  limit == RATE_LIMITS[ev[p].ep].limit
              IN  IF ev[p].result.allowed
                  THEN /\ n >= 1 /\ n <= limit
                       /\ ev[p].result.remaining \in {limit - n, limit - n - 1}
                  ELSE n >= limit
    /\ \A p \in Procs :
          (Returned(p) /\ ev[p].dupHit) =>
              \E f \in firstDecision :
                  /\ f.id = <<ev[p].ip, ev[p].ep, ev[p].rid>>
                  /\ f.d = ev[p].result

\* a request id first evaluated (and denied) for ip1 on /status is presented
\* by ip2 on /status, whose window is empty: it is evaluated afresh and admitted
C28_Witness ==
    /\ Returned(SeqProc)
    /\ ev[SeqProc].ip = "ip2"
    /\ ~ev[SeqProc].fresh
    /\ ~ev[SeqProc].dupHit
    /\ ev[SeqProc].result.allowed
    /\ \E f \in firstDecision :
          /\ f.id = <<"ip1", "status", ev[SeqProc].rid>>
          /\ ~f.d.allowed
          /\ ev[SeqProc].now < f.at + 1000

\* the slots of (ip, endpoint) that hold a counter record, from slot a on,
\* in a range of `width` consecutive slots
SlotsHeld(ip, endpoint, a, width) ==
    {e.key.n : e \in {x \in SlotRecords(kv) :
                        /\ x.key.ip = ip /\ x.key.ep = endpoint
                        /\ a <= x.key.n /\ x.key.n < a + width}}

\* C29: in sequential runs with the store up, any range of windowSeconds
\* consecutive slots of a (caller, endpoint) holds counter records in at
\* most `limit` distinct slots, in every reachable store state.
C29_SlotsPerWindow ==
    \A ip \in IPs, endpoint \in Endpoints, a \in 0..MaxSlot :
        Cardinality(SlotsHeld(ip, endpoint, a, RATE_LIMITS[endpoint].windowSeconds))
            <= RATE_LIMITS[endpoint].limit

\* the store holds records of /status (limit 1, window 2 s) in two slots,
\* two seconds apart
C29_Witness ==
    /\ target[2] = "status"
    /\ SlotsHeld(target[1], "status", 0, 3) = {0, 2}

=============================================================================
